---------------------------- MODULE Spec2Model ----------------------------
(***************************************************************************)
(* fountainflow: Raptor (RFC 5053) fountain codec and rate-limited UDP     *)
(* transport.  A state-machine model of the Rust sources:                  *)
(*   tables.rs, systematic.rs, distribution.rs   triple generation         *)
(*   fountain.rs, decoder.rs, linear_algebra.rs  encoder and decoder       *)
(*   encoder.rs, block.rs                        constructors, parameters  *)
(*   transport.rs                                rate limiter, framing     *)
(*   main.rs                                     receive session           *)
(* Indices are 0-based as in the source: vectors are functions on 0..n-1.  *)
(* A u32 word is a pair <<hi, lo>> of 16-bit halves (value hi*65536 + lo). *)
(***************************************************************************)
EXTENDS Integers, Sequences, FiniteSets, TLC

VARIABLES
    unlisted,   \* the table entries the source does not list (see V0, V1)
    tk, tx, tres,   \* generate_triple: the inputs k, x and the value returned
    src,        \* the source data D handed to Encoder::new (bytes)
    enc,        \* fountain::Encoder {blocks, block_size, sequence}
    emitted,    \* the Blocks returned by next_block so far
    decoder,    \* decoder::Decoder
    panicked,   \* a call on the decoder panicked (the thread unwound)
    op,         \* the last call made on the codec and what it returned
    clock,      \* transport: the time, in ticks, since RateLimiter::new
    limiter,    \* transport::RateLimiter {bytes_per_second, last_check, bytes_sent}
    mutex,      \* the tokio Mutex around the limiter: 0 free, else its holder
    snd,        \* per sender, where its send_block call stands and its locals
    released,   \* per tick, the bytes RateLimiter::wait released at that tick
    charged,    \* the frame lengths charged since the last reset, summed
    rclock,     \* receive_file: seconds since start_time
    rpc,        \* receive_file: "while" (loop test), "recv" (awaiting), "done"
    rcount,     \* receive_file: received_count
    rdecoder,   \* receive_file: decoder (an Option<Decoder>)
    rlast,      \* receive_file: the datagram handled last
    rresult,    \* receive_file: "running" or what it returned
    call        \* the last call of a constructor or pure function and its value

tripleVars == <<tk, tx, tres>>
codecVars == <<src, enc, emitted, decoder, panicked, op>>
rateVars == <<clock, limiter, mutex, snd, released, charged>>
recvVars == <<rclock, rpc, rcount, rdecoder, rlast, rresult>>
vars == <<unlisted, call, tripleVars, codecVars, rateVars, recvVars>>

(***************************************************************************)
(* Vectors (Vec<T>) as functions on 0..n-1.                                *)
(***************************************************************************)
Len0(v) == Cardinality(DOMAIN v)

Push(v, x) == [i \in 0..Len0(v) |-> IF i < Len0(v) THEN v[i] ELSE x]

Min2(a, b) == IF a <= b THEN a ELSE b

\* the value v, evaluated here (TLC otherwise keeps a constructed function
\* as an unevaluated expression)
Force(v) == IF v = v THEN v ELSE v

(***************************************************************************)
(* Option<T> and Result<T, E>.                                             *)
(***************************************************************************)
None == [some |-> FALSE]

Some(v) == [some |-> TRUE, val |-> v]

(***************************************************************************)
(* Bitwise exclusive or on naturals, and on u32 words.                     *)
(***************************************************************************)
RECURSIVE XorNat(_, _)
XorNat(a, b) ==
    IF a = 0 THEN b
    ELSE IF b = 0 THEN a
    ELSE (((a % 2) + (b % 2)) % 2) + 2 * XorNat(a \div 2, b \div 2)

XorWord(v, w) == <<XorNat(v[1], w[1]), XorNat(v[2], w[2])>>

\* (hi*65536 + lo) % m by Horner's rule on the four bytes; needs m <= 2^23,
\* which covers every modulus of the source (at most 2^20).
WordMod(w, m) ==
    LET r1 == (w[1] \div 256) % m
        r2 == ((r1 * 256) + (w[1] % 256)) % m
        r3 == ((r2 * 256) + (w[2] \div 256)) % m
    IN  ((r3 * 256) + (w[2] % 256)) % m

(***************************************************************************)
(* tables.rs                                                               *)
(***************************************************************************)
Q == 65521

\* The 16 entries of V0 the source lists (tables.rs:9-11), as <<hi, lo>>:
\* 251291136, 3952231631, 3370958628, 4070167936, 123631495, 3351110283,
\* 3218676425, 2011642291, 774603218, 2402805061, 1004366930, 1843948209,
\* 428891132, 3746331984, 1591258008, 3067016507.
V0Listed ==
    <<  <<3834, 26112>>, <<60306, 17615>>, <<51436, 48932>>, <<62105, 54656>>,
        <<1886, 30599>>, <<51133, 57995>>, <<49113, 6857>>, <<30695, 14771>>,
        <<11819, 33234>>, <<36663, 58693>>, <<15325, 27730>>, <<28136, 27313>>,
        <<6544, 23548>>, <<57164, 32080>>, <<24280, 43928>>, <<46798, 62779>> >>

\* The 16 entries of V1 the source lists (tables.rs:17-19):
\* 807385413, 2043073223, 3336749796, 1302105833, 2278607931, 541015020,
\* 1684564270, 372709334, 3508252125, 1768346005, 1270451292, 2603029534,
\* 2049387273, 3891424859, 2152948345, 4114760273.
V1Listed ==
    <<  <<12319, 47429>>, <<31174, 53959>>, <<50914, 49892>>, <<19868, 36585>>,
        <<34768, 52283>>, <<8255, 15340>>, <<25704, 26926>>, <<5687, 6102>>,
        <<53531, 44509>>, <<26982, 53653>>, <<19385, 35932>>, <<39719, 5150>>,
        <<31271, 11017>>, <<59378, 28251>>, <<32851, 25209>>, <<62786, 16977>> >>

\* The source declares [u32; 256] and lists 16 entries ("rest of ... table
\* from RFC 5053").  The other 240 entries are not in the source: a run fixes
\* them in Init (unlisted.v0, unlisted.v1), from UnlistedWords.
UnlistedWords == { <<10, 48351>>, <<65535, 65534>> }

V0(idx) == IF idx < Len(V0Listed) THEN V0Listed[idx + 1] ELSE unlisted.v0

V1(idx) == IF idx < Len(V1Listed) THEN V1Listed[idx + 1] ELSE unlisted.v1

\* pub fn rand(x, i, m): (V0[(x + i) % 256] ^ V1[((x / 256) + i) % 256]) % m
rand(x, i, m) ==
    LET v0 == V0((x + i) % 256)
        v1 == V1(((x \div 256) + i) % 256)
    IN  WordMod(XorWord(v0, v1), m)

degF == <<0, 10241, 491582, 712794, 831695, 948446, 1032189, 1048576>>

degD == <<0, 1, 2, 3, 4, 10, 11, 40>>

\* pub fn deg(v): the first d[j], j in 1..7, with v < f[j]; else d[7]
deg(v) ==
    IF \E j \in 1..7 : v < degF[j + 1]
    THEN degD[(CHOOSE j \in 1..7 : v < degF[j + 1] /\ \A i \in 1..(j - 1) : ~(v < degF[i + 1])) + 1]
    ELSE degD[8]

(***************************************************************************)
(* systematic.rs                                                           *)
(***************************************************************************)
KMAX == 256

\* SYSTEMATIC_INDEX_TABLE: the pairs (k, j) for k = 4..79, in order of k
SYSTEMATIC_INDEX_TABLE ==
    <<18, 14, 61, 46, 39, 58, 62, 55, 41,
      67, 50, 75, 43, 19, 37, 30, 22,
      53, 25, 34, 29, 20, 33, 15, 24,
      13, 35, 51, 9, 49, 45, 63, 8,
      48, 54, 47, 59, 71, 32, 52, 38,
      27, 26, 69, 23, 56, 40, 66, 17,
      65, 74, 21, 36, 57, 60, 16, 64,
      42, 12, 31, 68, 28, 73, 70, 44,
      11, 7, 72, 6, 10, 5, 4, 3,
      2, 1, 0>>

\* pub fn get_systematic_index(k): None outside [4, KMAX], else the table's
\* entry, None when the table has none
get_systematic_index(k) ==
    IF k < 4 \/ k > KMAX THEN None
    ELSE IF k - 3 \in DOMAIN SYSTEMATIC_INDEX_TABLE
         THEN Some(SYSTEMATIC_INDEX_TABLE[k - 3])
         ELSE None

(***************************************************************************)
(* distribution.rs                                                         *)
(***************************************************************************)
\* generate_triple calls tables::systematic_index(k); the repository's one
\* systematic-index lookup is systematic::get_systematic_index.
systematic_index(k) == get_systematic_index(k)

\* A u32 given by its four bytes <<b3, b2, b1, b0>>, the most significant
\* first, reduced mod q (q < 2^16)
u32_rem(w, q) == (((((((w[1] % q) * 256) + w[2]) % q) * 256 + w[3]) % q) * 256 + w[4]) % q

\* b + x * a in u32 arithmetic for the u32 x = <<x3, x2, x1, x0>> and a, b
\* below 2^16: the low 32 bits of the sum and whether the multiplication or
\* the addition overflowed, computed byte by byte with the carries
u32_mul_add(x, a, b) ==
    LET t0 == (x[4] * a) + b
        t1 == (x[3] * a) + (t0 \div 256)
        t2 == (x[2] * a) + (t1 \div 256)
        t3 == (x[1] * a) + (t2 \div 256)
    IN  [overflow |-> (t3 \div 256) # 0,
         low |-> <<t3 % 256, t2 % 256, t1 % 256, t0 % 256>>]

\* the first steps of generate_triple(k, x), to `let y = (b + x * a) % Q`,
\* for any u32 x: the outcomes it can have.  An overflow of x * a or of
\* b + x * a panics in a build with overflow checks and wraps in one without.
generate_triple_y(k, x) ==
    LET j_k == systematic_index(k)
    IN  IF ~j_k.some THEN {[tag |-> "None"]}
        ELSE LET a == (53591 + j_k.val * 997) % Q
                 b == (10267 * (j_k.val + 1)) % Q
                 s == u32_mul_add(x, a, b)
             IN  IF s.overflow
                 THEN {[tag |-> "panic"], [tag |-> "Some", y |-> u32_rem(s.low, Q)]}
                 ELSE {[tag |-> "Some", y |-> u32_rem(s.low, Q)]}

\* DegreeGenerator::generate_triple(k, x) -> Option<(d, a, b)>
generate_triple(k, x) ==
    LET j_k == systematic_index(k)
    IN  IF ~j_k.some THEN None
        ELSE LET a0 == (53591 + j_k.val * 997) % Q
                 b0 == (10267 * (j_k.val + 1)) % Q
                 y == (b0 + x * a0) % Q
                 v == rand(y, 0, 1048576)
                 d == deg(v)
                 a == 1 + rand(y, 1, k - 1)
                 b == rand(y, 2, k)
             IN  Some([d |-> d, a |-> a, b |-> b])

(***************************************************************************)
(* fountain.rs                                                             *)
(***************************************************************************)
\* Block::new(data, seed, degree)
Block(data, seed, degree) == [data |-> data, seed |-> seed, degree |-> degree]

\* data.chunks(block_size): chunk i is data[i*bs .. min((i+1)*bs, len) - 1]
Chunks(data, bs) ==
    LET n == (Len0(data) + bs - 1) \div bs
    IN  [c \in 0..(n - 1) |->
            [i \in 0..(Min2((c + 1) * bs, Len0(data)) - (c * bs) - 1) |-> data[(c * bs) + i]]]

\* fountain::Encoder::new(data, block_size) -> Result<Encoder, FountainError>
EncoderNew(data, bs) ==
    IF bs = 0 THEN [ok |-> FALSE, err |-> "InvalidBlockSize", arg |-> bs]
    ELSE IF bs > Len0(data) THEN [ok |-> FALSE, err |-> "InvalidBlockSize", arg |-> bs]
    ELSE LET blocks == Chunks(data, bs)
             k == Len0(blocks)
         IN  IF k < 4 \/ k > 256 THEN [ok |-> FALSE, err |-> "InvalidBlockSize", arg |-> bs]
             ELSE [ok |-> TRUE,
                   val |-> [blocks |-> blocks, block_size |-> bs, sequence |-> 0]]

\* Encoder::select_blocks(degree, a, b): the indices of the selected blocks,
\* the first at b % k, each next one a further on (mod k); `for _ in 1..degree`
RECURSIVE select_rest(_, _, _, _)
select_rest(k, a, index, n) ==
    IF n <= 0 THEN <<>>
    ELSE LET nxt == (index + a) % k
         IN  <<nxt>> \o select_rest(k, a, nxt, n - 1)

select_blocks(e, degree, a, b) ==
    LET k == Len0(e.blocks)
        first == b % k
    IN  <<first>> \o select_rest(k, a, first, degree - 1)

\* data[i] ^= byte for every byte of every selected block: byte i of the
\* result is the exclusive or of byte i of the selected blocks n, n+1, ...
RECURSIVE xor_byte(_, _, _, _)
xor_byte(e, sel, i, n) ==
    IF n > Len(sel) THEN 0
    ELSE LET block == e.blocks[sel[n]]
         IN  XorNat(IF i \in DOMAIN block THEN block[i] ELSE 0, xor_byte(e, sel, i, n + 1))

xor_blocks(e, sel) == [i \in 0..(e.block_size - 1) |-> xor_byte(e, sel, i, 1)]

\* a variant of next_block that leaves the sequence number as it is
next_block_keeping_sequence(e) ==
    LET triple == generate_triple(Len0(e.blocks), e.sequence)
    IN  IF ~triple.some
        THEN [ok |-> FALSE, err |-> "EncodingError", enc |-> e]
        ELSE LET t == triple.val
                 selected_blocks == select_blocks(e, t.d, t.a, t.b)
                 data == xor_blocks(e, selected_blocks)
             IN  [ok |-> TRUE, val |-> Block(data, e.sequence, t.d), enc |-> e]

\* Encoder::next_block() -> Result<Block, FountainError>, and the encoder after
next_block(e) ==
    LET triple == generate_triple(Len0(e.blocks), e.sequence)
    IN  IF ~triple.some
        THEN [ok |-> FALSE, err |-> "EncodingError", enc |-> e]
        ELSE LET t == triple.val
                 selected_blocks == select_blocks(e, t.d, t.a, t.b)
                 data == xor_blocks(e, selected_blocks)
             IN  [ok |-> TRUE,
                  val |-> Block(data, e.sequence, t.d),
                  enc |-> [e EXCEPT !.sequence = e.sequence + 1]]

(***************************************************************************)
(* encoder.rs                                                              *)
(***************************************************************************)
\* symbol.resize(symbol_size, 0): the chunk, padded with zeros
Padded(chunk, size) == [i \in 0..(size - 1) |-> IF i \in DOMAIN chunk THEN chunk[i] ELSE 0]

\* encoder::Encoder::new(data, symbol_size) -> Result<Encoder, EncoderError>
encoder_EncoderNew(data, symbol_size) ==
    IF symbol_size = 0 THEN [ok |-> FALSE, err |-> "InvalidBlockSize", arg |-> symbol_size]
    ELSE LET k == (Len0(data) + symbol_size - 1) \div symbol_size
             chunks == Chunks(data, symbol_size)
         IN  [ok |-> TRUE,
              val |-> [source_symbols |-> [c \in DOMAIN chunks |-> Padded(chunks[c], symbol_size)],
                       k |-> k,
                       symbol_size |-> symbol_size,
                       intermediate_symbols |-> None]]

(***************************************************************************)
(* systematic.rs: LDPCParams, combinations, Gray sequence                  *)
(***************************************************************************)
\* calculate binomial coefficient: c = c * (n - i) / (i + 1) for i in 0..k
RECURSIVE comb_loop(_, _, _, _)
comb_loop(n, k, i, c) ==
    IF i >= k THEN c ELSE comb_loop(n, k, i + 1, (c * (n - i)) \div (i + 1))

\* a variant of combinations that divides before it multiplies:
\* c = c / (i + 1) * (n - i)
RECURSIVE comb_loop_divide_first(_, _, _, _)
comb_loop_divide_first(n, k, i, c) ==
    IF i >= k THEN c ELSE comb_loop_divide_first(n, k, i + 1, (c \div (i + 1)) * (n - i))

combinations_divide_first(n, k) ==
    IF k > n THEN 0
    ELSE IF k = 0 \/ k = n THEN 1
    ELSE comb_loop_divide_first(n, Min2(k, n - k), 0, 1)

combinations(n, k) ==
    IF k > n THEN 0
    ELSE IF k = 0 \/ k = n THEN 1
    ELSE comb_loop(n, Min2(k, n - k), 0, 1)

\* let mut x = 1; while x * (x - 1) < 2 * k { x += 1 }
RECURSIVE ldpc_x(_, _)
ldpc_x(k, x) == IF x * (x - 1) < 2 * k THEN ldpc_x(k, x + 1) ELSE x

\* let mut h = 1; while combinations(h, (h + 1) / 2) < k + s { h += 1 }
RECURSIVE ldpc_h(_, _, _)
ldpc_h(k, s, h) ==
    IF combinations(h, (h + 1) \div 2) < k + s THEN ldpc_h(k, s, h + 1) ELSE h

\* (k as f64 * 0.01).ceil(): k/100 rounded up
Ceil001(k) == (k + 99) \div 100

\* LDPCParams::new(k)
LDPCParams(k) ==
    LET x == ldpc_x(k, 1)
        s == Ceil001(k) + x
        h == ldpc_h(k, s, 1)
    IN  [s |-> s, h |-> h, l |-> k + s + h]

\* generate_gray_sequence(length): i ^ (i >> 1) for i in 0..length
generate_gray_sequence(length) == [i \in 0..(length - 1) |-> XorNat(i, i \div 2)]

(***************************************************************************)
(* linear_algebra.rs: BinaryMatrix                                         *)
(***************************************************************************)
\* BinaryMatrix::new(rows, cols)
BinaryMatrixNew(rows, cols) ==
    [rows |-> rows, cols |-> cols,
     data |-> [i \in 0..(rows - 1) |-> [j \in 0..(cols - 1) |-> 0]]]

\* The accessor the decoder calls as equation_matrix.rows(): the rows field
MatrixRows(m) == m.rows

\* the `while pivot_row < rows && pivot_col < cols` loop from (pivot_row,
\* pivot_col) on; the value is the final pivot_row and the matrix.  A column
\* with no one at or below pivot_row only advances pivot_col, so the loop
\* resumes at the first column c0 >= pivot_col that has one.
RECURSIVE gauss_loop(_, _, _)
gauss_loop(m, pivot_row, pivot_col) ==
    IF ~(pivot_row < m.rows /\ pivot_col < m.cols)
    THEN [pivot_row |-> pivot_row, m |-> m]
    ELSE LET withOne == {c \in pivot_col..(m.cols - 1) :
                            \E i \in pivot_row..(m.rows - 1) : m.data[i][c] = 1}
         IN  IF withOne = {}
             THEN [pivot_row |-> pivot_row, m |-> m]
             ELSE LET c0 == CHOOSE c \in withOne : \A o \in withOne : c <= o
                      cand == {i \in pivot_row..(m.rows - 1) : m.data[i][c0] = 1}
                      i0 == CHOOSE i \in cand : \A o \in cand : i <= o
                      \* swap rows i0 and pivot_row, columns 0..cols-1
                      sw == [r \in DOMAIN m.data |->
                                IF r = pivot_row /\ i0 # pivot_row
                                THEN [j \in DOMAIN m.data[r] |->
                                        IF j < m.cols THEN m.data[i0][j] ELSE m.data[r][j]]
                                ELSE IF r = i0 /\ i0 # pivot_row
                                THEN [j \in DOMAIN m.data[r] |->
                                        IF j < m.cols THEN m.data[pivot_row][j] ELSE m.data[r][j]]
                                ELSE m.data[r]]
                      \* add the pivot row to every other row with a one in
                      \* the pivot column, columns pivot_col..cols-1
                      el == [r \in DOMAIN sw |->
                                IF r # pivot_row /\ sw[r][c0] = 1
                                THEN [j \in DOMAIN sw[r] |->
                                        IF j >= c0 /\ j < m.cols
                                        THEN (sw[r][j] + sw[pivot_row][j]) % 2
                                        ELSE sw[r][j]]
                                ELSE sw[r]]
                  IN  gauss_loop([m EXCEPT !.data = Force(el)], pivot_row + 1, c0 + 1)

\* BinaryMatrix::gaussian_elimination(): full rank (pivot_row == rows)?
gaussian_elimination(m) ==
    LET r == gauss_loop(m, 0, 0)
    IN  [full |-> r.pivot_row = m.rows, m |-> r.m]

\* back substitution: for i in (0..rows).rev()
RECURSIVE back_substitute(_, _, _)
back_substitute(aug, i, x) ==
    IF i < 0 THEN x
    ELSE LET ones == {j \in (i + 1)..(aug.cols - 1) : aug.data[i][j] = 1 /\ x[j] = 1}
             sum == (aug.data[i][aug.cols] + Cardinality(ones)) % 2
         IN  back_substitute(aug, i - 1, [x EXCEPT ![i] = sum])

\* BinaryMatrix::solve(b) -> Option<Vec<u8>>
solve(m, b) ==
    IF Len0(b) # m.rows THEN None
    ELSE LET augmented == [m EXCEPT !.data = [i \in DOMAIN m.data |-> Push(m.data[i], b[i])]]
             ge == gaussian_elimination(augmented)
         IN  IF ~ge.full THEN None
             ELSE Some(back_substitute(ge.m, m.rows - 1, [j \in 0..(m.cols - 1) |-> 0]))

(***************************************************************************)
(* decoder.rs                                                              *)
(***************************************************************************)
\* A cell toggled (^= 1) n times from 0 holds n % 2.
Parity(n) == n % 2

\* initialize_ldpc_constraints: for i in 0..s, row k + i is toggled at the
\* columns a % k, b % k and c % k
initialize_ldpc_constraints(m, k, p) ==
    [m EXCEPT !.data = [r \in DOMAIN m.data |->
        IF r < k \/ r >= k + p.s THEN m.data[r]
        ELSE LET i == r - k
                 a == 1 + (i \div p.s) * (k \div p.s)
                 b == 1 + ((i + 1) \div p.s) * (k \div p.s)
                 c == 1 + ((i + 2) \div p.s) * (k \div p.s)
             IN  [col \in DOMAIN m.data[r] |->
                     (m.data[r][col]
                      + Parity((IF a % k = col THEN 1 ELSE 0)
                               + (IF b % k = col THEN 1 ELSE 0)
                               + (IF c % k = col THEN 1 ELSE 0))) % 2]]]

\* initialize_half_constraints with h / 2 in place of (h + 1) / 2
initialize_half_constraints_floor_half(m, gray, k, p) ==
    [m EXCEPT !.data = [r \in DOMAIN m.data |->
        IF r < k + p.s \/ r >= k + p.s + p.h THEN m.data[r]
        ELSE LET i == r - (k + p.s)
                 h_half == p.h \div 2
             IN  [col \in DOMAIN m.data[r] |->
                     (m.data[r][col]
                      + Parity(Cardinality({j \in 0..(h_half - 1) :
                                               (gray[j] + i) % k = col}))) % 2]]]

\* initialize_half_constraints: for i in 0..h, row k + s + i is toggled at
\* column (gray[j] + i) % k for every j in 0..ceil(h/2)
initialize_half_constraints(m, gray, k, p) ==
    [m EXCEPT !.data = [r \in DOMAIN m.data |->
        IF r < k + p.s \/ r >= k + p.s + p.h THEN m.data[r]
        ELSE LET i == r - (k + p.s)
                 h_half == (p.h + 1) \div 2
             IN  [col \in DOMAIN m.data[r] |->
                     (m.data[r][col]
                      + Parity(Cardinality({j \in 0..(h_half - 1) :
                                               (gray[j] + i) % k = col}))) % 2]]]

\* Decoder::new(source_block_count, block_size) -> Result<Decoder, DecoderError>
DecoderNew(source_block_count, block_size) ==
    IF source_block_count < 4 \/ source_block_count > 256
    THEN [ok |-> FALSE, err |-> "InvalidBlockCount", arg |-> source_block_count]
    ELSE IF block_size = 0
    THEN [ok |-> FALSE, err |-> "InvalidBlockSize", arg |-> block_size]
    ELSE LET ldpc_params == LDPCParams(source_block_count)
             matrix_size == ldpc_params.l
             gray_sequence == generate_gray_sequence(ldpc_params.h)
             m0 == BinaryMatrixNew(matrix_size, matrix_size)
             m1 == Force(initialize_ldpc_constraints(m0, source_block_count, ldpc_params))
             m2 == Force(initialize_half_constraints(m1, gray_sequence, source_block_count, ldpc_params))
         IN  [ok |-> TRUE,
              val |-> [source_block_count |-> source_block_count,
                       block_size |-> block_size,
                       received_blocks |-> <<>>,
                       block_states |-> <<>>,
                       decoded_blocks |-> [i \in 0..(source_block_count - 1) |-> None],
                       equation_matrix |-> m2,
                       equation_values |-> [i \in 0..(matrix_size - 1) |-> 0],
                       ldpc_params |-> ldpc_params,
                       gray_sequence |-> gray_sequence]]

\* HashMap::insert(key, value)
MapInsert(map, key, value) ==
    [x \in (DOMAIN map) \cup {key} |-> IF x = key THEN value ELSE map[x]]

\* a variant of add_block that appends an equation for every block it is
\* handed, the repeated ones included
add_block_appending(d, block, sequence) ==
    IF Len0(block.data) # d.block_size
    THEN [ok |-> FALSE, err |-> "InvalidBlockSize", arg |-> Len0(block.data), dec |-> d]
    ELSE [ok |-> TRUE,
          dec |-> [d EXCEPT !.received_blocks = MapInsert(@, sequence, block),
                            !.block_states = MapInsert(@, sequence, "Pending"),
                            !.equation_values = Push(@, 1)]]

\* a variant of add_block that inserts the block before it tests its size
add_block_insert_first(d, block, sequence) ==
    LET dec == [d EXCEPT !.received_blocks = MapInsert(@, sequence, block),
                         !.block_states = MapInsert(@, sequence, "Pending")]
    IN  IF Len0(block.data) # d.block_size
        THEN [ok |-> FALSE, err |-> "InvalidBlockSize", arg |-> Len0(block.data), dec |-> dec]
        ELSE [ok |-> TRUE, dec |-> dec]

\* Decoder::add_block(block, sequence) -> Result<(), DecoderError>
add_block(d, block, sequence) ==
    IF Len0(block.data) # d.block_size
    THEN [ok |-> FALSE, err |-> "InvalidBlockSize", arg |-> Len0(block.data), dec |-> d]
    ELSE [ok |-> TRUE,
          dec |-> [d EXCEPT !.received_blocks = MapInsert(@, sequence, block),
                            !.block_states = MapInsert(@, sequence, "Pending")]]

\* Decoder::update_equation_matrix(row, sequence, degree): Err when the triple
\* is None; a panic (index out of bounds) when row is no row of the matrix;
\* else the row is toggled at index = b % k and then, `for _ in 1..degree`,
\* at each next index = (index + a) % k
update_equation_matrix(d, row, sequence, degree) ==
    LET triple == generate_triple(d.source_block_count, sequence)
        k == d.source_block_count
        m == d.equation_matrix
    IN  IF ~triple.some THEN [tag |-> "Err", err |-> "DecodingFailed"]
        ELSE IF row \notin DOMAIN m.data THEN [tag |-> "panic"]
        ELSE LET index == triple.val.b % k
                 a == triple.val.a
                 steps == IF degree >= 1 THEN 0..(degree - 1) ELSE {0}
             IN  [tag |-> "Ok",
                  m |-> [m EXCEPT !.data[row] = [col \in DOMAIN @ |->
                            (@[col] + Parity(Cardinality({n \in steps :
                                (index + (n * a)) % k = col}))) % 2]]]

RECURSIVE process_pending_blocks(_, _)
\* one iteration of the loop of process_pending_blocks, from the result u of
\* update_equation_matrix on: `?` returns the error, else the block becomes
\* Processed and the loop goes on with the pending blocks left
process_pending_step(d1, u, sequence, rest) ==
    IF u.tag = "Err" THEN {[tag |-> "Err", err |-> u.err, dec |-> d1]}
    ELSE IF u.tag = "panic" THEN {[tag |-> "panic", dec |-> d1]}
    ELSE process_pending_blocks(
             [d1 EXCEPT !.equation_matrix = u.m,
                        !.block_states[sequence] = "Processed"],
             rest)

\* the state after self.equation_values.push(1)
push_equation_value(d) == [d EXCEPT !.equation_values = Push(@, 1)]

\* Decoder::process_pending_blocks() on the blocks `pending`: the outcomes
\* it can have, one for each order in which the HashMap hands the blocks out
process_pending_blocks(d, pending) ==
    IF pending = {} THEN {[tag |-> "Ok", dec |-> d]}
    ELSE UNION {process_pending_step(
                    push_equation_value(d),
                    update_equation_matrix(push_equation_value(d),
                                           MatrixRows(d.equation_matrix),
                                           d.received_blocks[q].seed,
                                           d.received_blocks[q].degree),
                    q, pending \ {q}) : q \in pending}

PendingBlocks(d) == {q \in DOMAIN d.block_states : d.block_states[q] = "Pending"}

\* the keys received_blocks.values().next() may yield (a HashMap's order)
FirstKeys(d) ==
    IF DOMAIN d.received_blocks = {} THEN {0} ELSE DOMAIN d.received_blocks

\* try_decode from the solution of the system on; `first` is the key of the
\* block received_blocks.values().next() yields
try_decode_solution(d, solution, first) ==
    IF ~solution.some
    THEN [tag |-> "Err", err |-> "SystemNotSolvable", dec |-> d]
    ELSE LET ones == {i \in 0..(d.source_block_count - 1) :
                         i \in DOMAIN solution.val /\ solution.val[i] = 1}
         IN  IF ones # {} /\ DOMAIN d.received_blocks = {}
             THEN [tag |-> "Err", err |-> "NotEnoughBlocks", dec |-> d]
             ELSE [tag |-> "Ok", val |-> TRUE,
                   dec |-> [d EXCEPT !.decoded_blocks =
                       [i \in DOMAIN @ |->
                           IF i \in ones
                           THEN Some(d.received_blocks[first].data)
                           ELSE @[i]]]]

\* try_decode from the result p of process_pending_blocks()? on
try_decode_processed(p, first) ==
    IF p.tag # "Ok" THEN p
    ELSE IF Len0(p.dec.equation_values) < p.dec.source_block_count
    THEN [tag |-> "Ok", val |-> FALSE, dec |-> p.dec]
    ELSE try_decode_solution(p.dec,
                             solve(p.dec.equation_matrix, p.dec.equation_values),
                             first)

\* Decoder::try_decode() -> Result<bool, DecoderError>: the outcomes it can
\* have, each with the decoder it leaves
try_decode(d) ==
    {try_decode_processed(p, first) :
        p \in process_pending_blocks(d, PendingBlocks(d)), first \in FirstKeys(d)}

\* a variant of get_decoded_data without the all-blocks-decoded test: the
\* blocks not decoded yet read as zeros
get_decoded_data_partial(d) ==
    Some([j \in 0..((d.source_block_count * d.block_size) - 1) |->
            IF d.decoded_blocks[j \div d.block_size].some
            THEN d.decoded_blocks[j \div d.block_size].val[j % d.block_size]
            ELSE 0])

\* Decoder::get_decoded_data() -> Option<Vec<u8>>
get_decoded_data(d) ==
    IF \A i \in DOMAIN d.decoded_blocks : d.decoded_blocks[i].some
    THEN Some([j \in 0..((d.source_block_count * d.block_size) - 1) |->
                 d.decoded_blocks[j \div d.block_size].val[j % d.block_size]])
    ELSE None

(***************************************************************************)
(* block.rs                                                                *)
(***************************************************************************)
\* n / d rounded up, d > 0
CeilDiv(n, d) == (n + d - 1) \div d

\* min((n as f64 / d as f64).ceil() as usize, other): the quotient is
\* infinite for d = 0 < n and the cast saturates, so the other value is the
\* smaller; it is NaN for n = d = 0 and the cast gives 0
MinCeil(n, d, other) ==
    IF d = 0 THEN (IF n = 0 THEN 0 ELSE other) ELSE Min2(CeilDiv(n, d), other)

\* BlockParameters::new(transfer_length, target_subblock_size,
\* max_payload_size, alignment, max_symbols_per_packet).  `min` is written
\* with three arguments for g: the least of the three.  An integer division
\* by zero panics.
BlockParametersNew(transfer_length, target_subblock_size, max_payload_size, alignment, max_symbols_per_packet) ==
    IF alignment = 0 \/ max_payload_size % alignment # 0
    THEN [tag |-> "Err", err |-> "InvalidParameters"]
    ELSE LET g == MinCeil(max_payload_size * 1024, transfer_length,
                          Min2(max_payload_size \div alignment, max_symbols_per_packet))
         IN  IF alignment * g = 0
             THEN [tag |-> "panic", msg |-> "attempt to divide by zero"]
             ELSE LET symbol_size == (max_payload_size \div (alignment * g)) * alignment
                      \* symbol_size >= alignment > 0 here (g <= P / A)
                      kt == CeilDiv(transfer_length, symbol_size)
                      num_blocks == CeilDiv(kt, KMAX)
                      num_subblocks == MinCeil(kt * symbol_size,
                                               num_blocks * target_subblock_size,
                                               symbol_size \div alignment)
                  IN  IF kt * symbol_size > transfer_length
                      THEN [tag |-> "Err", err |-> "TransferTooLarge"]
                      ELSE [tag |-> "Ok",
                            val |-> [transfer_length |-> transfer_length,
                                     alignment |-> alignment,
                                     symbol_size |-> symbol_size,
                                     num_blocks |-> num_blocks,
                                     num_subblocks |-> num_subblocks]]

\* data[start..end]
Slice(data, start, end) == [i \in 0..(end - start - 1) |-> data[start + i]]

\* v.resize(n, 0) for n >= v.len()
Resize(v, n) == [i \in 0..(n - 1) |-> IF i < Len0(v) THEN v[i] ELSE 0]

\* SourceBlock::new(data, block_number, params): a division by zero
\* (symbol_size = 0 or num_subblocks = 0) panics
SourceBlockNew(data, block_number, params) ==
    IF params.symbol_size = 0 \/ params.num_subblocks = 0
    THEN [tag |-> "panic", msg |-> "attempt to divide by zero"]
    ELSE LET block_size == params.symbol_size * (Len0(data) \div params.symbol_size)
             full == block_size \div params.symbol_size
             symbols == IF Len0(data) % params.symbol_size # 0
                        THEN [i \in 0..full |->
                                 IF i < full
                                 THEN Slice(data, i * params.symbol_size,
                                            (i * params.symbol_size) + params.symbol_size)
                                 ELSE Resize(Slice(data, block_size, Len0(data)),
                                             params.symbol_size)]
                        ELSE [i \in 0..(full - 1) |->
                                 Slice(data, i * params.symbol_size,
                                       (i * params.symbol_size) + params.symbol_size)]
             sub_symbol_size == params.symbol_size \div params.num_subblocks
         IN  [tag |-> "Ok",
              val |-> [number |-> block_number,
                       symbols |-> symbols,
                       sub_blocks |-> [i \in 0..(params.num_subblocks - 1) |->
                           [n \in DOMAIN symbols |->
                               Slice(symbols[n], i * sub_symbol_size,
                                     (i * sub_symbol_size) + sub_symbol_size)]]]]

\* SourceBlock::sub_symbol(symbol_index, sub_block) -> Option<&[u8]>
sub_symbol(block, symbol_index, sub_block) ==
    IF sub_block \in DOMAIN block.sub_blocks /\ symbol_index \in DOMAIN block.sub_blocks[sub_block]
    THEN Some(block.sub_blocks[sub_block][symbol_index])
    ELSE None

(***************************************************************************)
(* transport.rs                                                            *)
(***************************************************************************)
HEADER_SIZE == 12

\* RateLimiter::new(mbps), called at time now
RateLimiterNew(mbps, now) ==
    [bytes_per_second |-> (mbps * 1024 * 1024) \div 8,
     last_check |-> now,
     bytes_sent |-> 0]

\* the ticks a duration of num / den seconds lasts, rounded up: a sleep ends
\* at the first tick at or after its deadline
CeilTicks(num, den, ticksPerSec) == ((num * ticksPerSec) + den - 1) \div den

\* RateLimiter::wait after `self.bytes_sent += bytes`: elapsed is read and
\* the value is how many ticks the call sleeps (0: expected_time <= elapsed)
sleep_ticks(rl, now, ticksPerSec) ==
    LET elapsed == now - rl.last_check
        \* expected_time > elapsed, both in seconds
        late == rl.bytes_sent * ticksPerSec > elapsed * rl.bytes_per_second
    IN  IF late
        THEN CeilTicks(rl.bytes_sent, rl.bytes_per_second, ticksPerSec) - elapsed
        ELSE 0

\* RateLimiter::wait(bytes), called at time now with no other caller: the
\* ticks the call sleeps, after `self.bytes_sent += bytes`
wait_delay(rl, bytes, now, ticksPerSec) ==
    sleep_ticks([rl EXCEPT !.bytes_sent = @ + bytes], now, ticksPerSec)

\* the variant of the lock where every caller gets the guard at once
mutex_always_free(m) == TRUE

\* tokio::sync::Mutex::lock(): the guard is handed out when no one holds it
mutex_free(m) == m = 0

\* UdpTransport::receive_block() on a datagram of dg.len bytes: the header
\* is parsed and the rest is the payload
receive_block(dg) ==
    IF dg.len < HEADER_SIZE
    THEN [ok |-> FALSE, err |-> "Received packet too small"]
    ELSE [ok |-> TRUE,
          data |-> [i \in 0..(dg.len - HEADER_SIZE - 1) |-> dg.payload],
          seed |-> dg.seed, degree |-> dg.degree, seq |-> dg.seq]

DEFAULT_MTU == 1500

\* A usize is four 16-bit parts <<p3, p2, p1, p0>>, the most significant
\* first.  `x as u32` keeps the low 32 bits; `w as usize` extends with zeros.
usize_as_u32(x) == <<x[3], x[4]>>

u32_as_usize(w) == <<0, 0, w[1], w[2]>>

\* u32::to_be_bytes and u32::from_be_bytes
to_be_bytes(w) == <<w[1] \div 256, w[1] % 256, w[2] \div 256, w[2] % 256>>

from_be_bytes(b) == <<(b[1] * 256) + b[2], (b[3] * 256) + b[4]>>

\* UdpTransport::send_block: the buffer handed to send_to, the three header
\* fields and then block_data
send_block_buffer(block_data, seed, degree, seq) ==
    LET header == to_be_bytes(seed) \o to_be_bytes(usize_as_u32(degree)) \o to_be_bytes(seq)
    IN  [i \in 0..(HEADER_SIZE + Len0(block_data) - 1) |->
            IF i < HEADER_SIZE THEN header[i + 1] ELSE block_data[i - HEADER_SIZE]]

\* self.socket.recv_from(&mut buffer) with buffer = vec![0u8; self.mtu], when
\* the datagram `wire` arrives: what it can return.  A datagram longer than
\* the buffer is cut to the buffer's length where the platform discards the
\* excess bytes, and is an error where it reports the message as too long.
recv_from(wire, mtu) ==
    IF Len0(wire) <= mtu
    THEN {[ok |-> TRUE, len |-> Len0(wire),
           buffer |-> [i \in 0..(mtu - 1) |-> IF i < Len0(wire) THEN wire[i] ELSE 0]]}
    ELSE {[ok |-> TRUE, len |-> mtu, buffer |-> [i \in 0..(mtu - 1) |-> wire[i]]],
          [ok |-> FALSE, err |-> "message too long"]}

\* UdpTransport::receive_block() from the value r of recv_from(..).await on:
\* `?`, the length test, the header and the payload, byte by byte
receive_block_from(r) ==
    IF ~r.ok THEN [ok |-> FALSE, err |-> r.err]
    ELSE IF r.len < HEADER_SIZE
    THEN [ok |-> FALSE, err |-> "Received packet too small"]
    ELSE [ok |-> TRUE,
          data |-> [i \in 0..(r.len - HEADER_SIZE - 1) |-> r.buffer[HEADER_SIZE + i]],
          seed |-> from_be_bytes([j \in 1..4 |-> r.buffer[j - 1]]),
          degree |-> u32_as_usize(from_be_bytes([j \in 1..4 |-> r.buffer[j + 3]])),
          seq |-> from_be_bytes([j \in 1..4 |-> r.buffer[j + 7]])]

(***************************************************************************)
(* main.rs                                                                 *)
(***************************************************************************)
\* receive_file: Duration::from_secs(30)
TIMEOUT_SECS == 30
\* receive_file: let estimated_blocks = 100
ESTIMATED_BLOCKS == 100
\* receive_file: if received_count % 10 == 0
DECODE_PERIOD == 10

(***************************************************************************)
(* Bounds and inputs of the model.                                         *)
(***************************************************************************)
MaxX == 255         \* generate_triple is called with x in 0..MaxX
MaxSeq == 5         \* next_block is called at most MaxSeq times
MaxTries == 2       \* equations try_decode may append before the model stops
MaxRecv == 4        \* distinct sequence numbers the decoder is handed
TicksPerSec == 4    \* clock ticks per second of the transport's clock
MaxTime == 6        \* the transport's clock stops at this tick
MaxCalls == 2       \* send_block calls per sender
MaxClock == 40      \* receive_file's clock stops at this second
ClockStep == 10     \* seconds receive_file's clock advances at a time
MaxDatagrams == 10  \* datagrams receive_file is handed

TripleKs == {3, 4, 9, 10, 79, 80, 100, 256, 257}
CodecKs == {4, 9, 80}
BlockSizes == {1, 2}
Patterns == {1}

\* the source data: K * T bytes; pattern 0 is 00 01 02 03 ...
SourceData(k, t, p) == [j \in 0..((k * t) - 1) |-> ((j * ((2 * p) + 1)) + (17 * p)) % 256]

\* blocks built by hand, as the decoder's tests build them: payload 1, 2, ...
\* of n bytes, seed 42, degree 3
HandBlock(n) == Block([i \in 0..(n - 1) |-> i + 1], 42, 3)

Senders == {1, 2}
Rates == {1}                    \* rate_limit_mbps
PayloadLens == {16372, 49140}   \* block_data.len()
DatagramLens == {8, 12, 13, 14}
Datagrams ==
    {[len |-> n, payload |-> 7, seed |-> q, degree |-> 1, seq |-> q] :
        n \in DatagramLens, q \in {0, 1}}

InitTables == unlisted \in [v0 : UnlistedWords, v1 : UnlistedWords]

\* the transport and receive_file never read an unlisted table entry
TablesIdle == unlisted = [v0 |-> <<0, 0>>, v1 |-> <<0, 0>>]

CallIdle == call = [name |-> "idle"]

TripleIdle == tk = 0 /\ tx = 0 /\ tres = [called |-> FALSE]

CodecIdle ==
    /\ src = <<>>
    /\ enc = None
    /\ emitted = {}
    /\ decoder = None
    /\ panicked = FALSE
    /\ op = [name |-> "idle"]

RateIdle ==
    /\ clock = 0
    /\ limiter = None
    /\ mutex = 0
    /\ snd = <<>>
    /\ released = <<>>
    /\ charged = 0

RecvIdle ==
    /\ rclock = 0
    /\ rpc = "idle"
    /\ rcount = 0
    /\ rdecoder = None
    /\ rlast = None
    /\ rresult = "idle"

(***************************************************************************)
(* SpecTriple: generate_triple on bounded inputs.                          *)
(***************************************************************************)
GenerateTriple(k, x) ==
    /\ ~tres.called
    /\ tk' = k
    /\ tx' = x
    /\ tres' = [called |-> TRUE, ret |-> generate_triple(k, x)]
    /\ UNCHANGED <<unlisted, call, codecVars, rateVars, recvVars>>

InitTriple == InitTables /\ CallIdle /\ TripleIdle /\ CodecIdle /\ RateIdle /\ RecvIdle

NextTriple == \E k \in TripleKs, x \in 0..MaxX : GenerateTriple(k, x)

SpecTriple == InitTriple /\ [][NextTriple]_vars

(***************************************************************************)
(* Spec: one encoder and one decoder for the same (K, T).                  *)
(***************************************************************************)
InitCodec ==
    /\ InitTables
    /\ TripleIdle
    /\ CallIdle
    /\ \E k \in CodecKs, t \in BlockSizes, p \in Patterns :
        /\ src = SourceData(k, t, p)
        /\ enc = EncoderNew(SourceData(k, t, p), t).val
        /\ decoder = DecoderNew(k, t).val
    /\ emitted = {}
    /\ panicked = FALSE
    /\ op = [name |-> "new"]
    /\ RateIdle
    /\ RecvIdle

\* encoder.next_block()
NextBlock ==
    /\ enc.sequence < MaxSeq
    /\ LET r == next_block(enc)
       IN  /\ enc' = r.enc
           /\ emitted' = IF r.ok THEN emitted \cup {r.val} ELSE emitted
           /\ op' = [name |-> "next_block", ok |-> r.ok,
                     ret |-> IF r.ok THEN r.val ELSE r.err]
    /\ UNCHANGED <<unlisted, call, tripleVars, src, decoder, panicked, rateVars, recvVars>>

\* decoder.add_block(block, sequence)
AddBlock(block, sequence) ==
    /\ ~panicked
    /\ \/ sequence \in DOMAIN decoder.received_blocks
       \/ Cardinality(DOMAIN decoder.received_blocks) < MaxRecv
    /\ LET r == add_block(decoder, block, sequence)
       IN  /\ decoder' = r.dec
           /\ op' = [name |-> "add_block", ok |-> r.ok, sequence |-> sequence,
                     len |-> Len0(block.data),
                     err |-> IF r.ok THEN <<>> ELSE <<r.err, r.arg>>,
                     dup |-> /\ sequence \in DOMAIN decoder.received_blocks
                             /\ decoder.received_blocks[sequence] = block]
    /\ UNCHANGED <<unlisted, call, tripleVars, src, enc, emitted, panicked, rateVars, recvVars>>

\* the outcome r of decoder.try_decode() as the caller sees it
TryDecodeOutcome(r) ==
    /\ decoder' = r.dec
    /\ panicked' = (r.tag = "panic")
    /\ op' = [name |-> "try_decode",
              res |-> IF r.tag = "Ok" THEN <<"Ok", r.val>>
                      ELSE IF r.tag = "Err" THEN <<"Err", r.err>>
                      ELSE <<"panic", "index out of bounds">>]

\* decoder.try_decode()
TryDecode ==
    /\ ~panicked
    /\ Len0(decoder.equation_values) < decoder.ldpc_params.l + MaxTries
    /\ \E r \in try_decode(decoder) : TryDecodeOutcome(r)
    /\ UNCHANGED <<unlisted, call, tripleVars, src, enc, emitted, rateVars, recvVars>>

NextCodec ==
    \/ NextBlock
    \/ \E b \in emitted : AddBlock(b, b.seed)
    \/ \E n \in {decoder.block_size, decoder.block_size + 1} : AddBlock(HandBlock(n), 0)
    \/ TryDecode

Spec == InitCodec /\ [][NextCodec]_vars

(***************************************************************************)
(* SpecRate: concurrent send_block calls on one UdpTransport.              *)
(***************************************************************************)
InitRate ==
    /\ TablesIdle
    /\ TripleIdle
    /\ CallIdle
    /\ CodecIdle
    /\ RecvIdle
    /\ clock = 0
    /\ \E mbps \in Rates : limiter = RateLimiterNew(mbps, 0)
    /\ mutex = 0
    /\ snd = [p \in Senders |-> [pc |-> "idle", len |-> 0, tmp |-> 0,
                                 elapsed |-> 0, wake |-> 0, calls |-> 0]]
    /\ released = [t \in 0..MaxTime |-> 0]
    /\ charged = 0

\* send_block is called: the buffer is the header and the payload
Call(p, n) ==
    /\ snd[p].pc = "idle"
    /\ snd[p].calls < MaxCalls
    /\ snd' = [snd EXCEPT ![p].pc = "lock", ![p].len = HEADER_SIZE + n,
                          ![p].calls = @ + 1]
    /\ UNCHANGED <<clock, limiter, mutex, released, charged>>
    /\ UNCHANGED <<unlisted, call, tripleVars, codecVars, recvVars>>

\* self.rate_limiter.lock().await
Lock(p) ==
    /\ snd[p].pc = "lock"
    /\ mutex_free(mutex)
    /\ mutex' = p
    /\ snd' = [snd EXCEPT ![p].pc = "load"]
    /\ UNCHANGED <<clock, limiter, released, charged>>
    /\ UNCHANGED <<unlisted, call, tripleVars, codecVars, recvVars>>

\* wait: self.bytes_sent += bytes, the read of bytes_sent
Load(p) ==
    /\ snd[p].pc = "load"
    /\ snd' = [snd EXCEPT ![p].pc = "store", ![p].tmp = limiter.bytes_sent]
    /\ UNCHANGED <<clock, limiter, mutex, released, charged>>
    /\ UNCHANGED <<unlisted, call, tripleVars, codecVars, recvVars>>

\* wait: self.bytes_sent += bytes, the write; then elapsed and expected_time
\* are computed and the sleep, if any, starts
Store(p) ==
    /\ snd[p].pc = "store"
    /\ LET rl == [limiter EXCEPT !.bytes_sent = snd[p].tmp + snd[p].len]
           st == sleep_ticks(rl, clock, TicksPerSec)
       IN  /\ limiter' = rl
           /\ snd' = [snd EXCEPT ![p].pc = IF st > 0 THEN "sleep" ELSE "reset",
                                 ![p].elapsed = clock - rl.last_check,
                                 ![p].wake = clock + st]
    /\ charged' = charged + snd[p].len
    /\ UNCHANGED <<clock, mutex, released>>
    /\ UNCHANGED <<unlisted, call, tripleVars, codecVars, recvVars>>

\* wait: tokio::time::sleep(sleep_duration).await is over
Wake(p) ==
    /\ snd[p].pc = "sleep"
    /\ clock >= snd[p].wake
    /\ snd' = [snd EXCEPT ![p].pc = "reset"]
    /\ UNCHANGED <<clock, limiter, mutex, released, charged>>
    /\ UNCHANGED <<unlisted, call, tripleVars, codecVars, recvVars>>

\* wait: `if elapsed >= 1.0 { last_check = now; bytes_sent = 0 }`; wait
\* returns, which releases the frame, and the guard is dropped
Reset(p) ==
    /\ snd[p].pc = "reset"
    /\ IF snd[p].elapsed >= TicksPerSec
       THEN /\ limiter' = [limiter EXCEPT !.last_check = clock, !.bytes_sent = 0]
            /\ charged' = 0
       ELSE UNCHANGED <<limiter, charged>>
    /\ released' = [released EXCEPT ![clock] = @ + snd[p].len]
    /\ mutex' = IF mutex = p THEN 0 ELSE mutex
    /\ snd' = [snd EXCEPT ![p].pc = "send", ![p].tmp = 0, ![p].elapsed = 0,
                          ![p].wake = 0]
    /\ UNCHANGED clock
    /\ UNCHANGED <<unlisted, call, tripleVars, codecVars, recvVars>>

\* self.socket.send_to(&buffer, target).await?; Ok(())
SendTo(p) ==
    /\ snd[p].pc = "send"
    /\ snd' = [snd EXCEPT ![p].pc = "idle", ![p].len = 0]
    /\ UNCHANGED <<clock, limiter, mutex, released, charged>>
    /\ UNCHANGED <<unlisted, call, tripleVars, codecVars, recvVars>>

\* time passes
Tick ==
    /\ clock < MaxTime
    /\ clock' = clock + 1
    /\ UNCHANGED <<limiter, mutex, snd, released, charged>>
    /\ UNCHANGED <<unlisted, call, tripleVars, codecVars, recvVars>>

NextRate ==
    \/ \E p \in Senders, n \in PayloadLens : Call(p, n)
    \/ \E p \in Senders : Lock(p)
    \/ \E p \in Senders : Load(p)
    \/ \E p \in Senders : Store(p)
    \/ \E p \in Senders : Wake(p)
    \/ \E p \in Senders : Reset(p)
    \/ \E p \in Senders : SendTo(p)
    \/ Tick

SpecRate == InitRate /\ [][NextRate]_vars

(***************************************************************************)
(* SpecRecv: receive_file.                                                 *)
(***************************************************************************)
InitRecv ==
    /\ TablesIdle
    /\ TripleIdle
    /\ CallIdle
    /\ CodecIdle
    /\ RateIdle
    /\ rclock = 0
    /\ rpc = "while"
    /\ rcount = 0
    /\ rdecoder = None
    /\ rlast = None
    /\ rresult = "running"

\* receive_file returns res
RecvReturn(dec, res) ==
    /\ rdecoder' = dec
    /\ rresult' = res
    /\ rpc' = "done"

\* the loop body is over: back to the loop test
RecvLoop(dec) ==
    /\ rdecoder' = dec
    /\ rresult' = rresult
    /\ rpc' = "while"

\* from the result t of decoder.try_decode() on
RecvTried(t) ==
    IF t.tag = "Err" THEN RecvReturn(Some(t.dec), <<"Err", t.err>>)
    ELSE IF t.tag = "panic"
    THEN RecvReturn(Some(t.dec), <<"panic", "index out of bounds">>)
    ELSE IF t.val /\ get_decoded_data(t.dec).some
    THEN RecvReturn(Some(t.dec), <<"Ok", "saved">>)
    ELSE RecvLoop(Some(t.dec))

\* from the result a of decoder.add_block(block, sequence) on
RecvAdded(a, count) ==
    IF ~a.ok THEN RecvReturn(Some(a.dec), <<"Err", a.err>>)
    ELSE IF count % DECODE_PERIOD = 0
    THEN \E t \in try_decode(a.dec) : RecvTried(t)
    ELSE RecvLoop(Some(a.dec))

\* from the decoder on: dn is the decoder there was, or the result of
\* Decoder::new(estimated_blocks, block_size) at the first block
RecvDecoder(dn, r, count) ==
    IF ~dn.ok THEN RecvReturn(None, <<"Err", dn.err>>)
    ELSE RecvAdded(add_block(dn.val, Block(r.data, r.seed, r.degree), r.seq), count)

\* the decoder of the loop body: the one there is, or a new one
session_decoder(dec, r) ==
    IF dec.some THEN [ok |-> TRUE, val |-> dec.val]
    ELSE DecoderNew(ESTIMATED_BLOCKS, Len0(r.data))

\* from the result r of transport.receive_block().await on
RecvReceived(r) ==
    IF ~r.ok
    THEN /\ rcount' = rcount
         /\ RecvReturn(rdecoder, <<"Err", r.err>>)
    ELSE /\ rcount' = rcount + 1
         /\ RecvDecoder(session_decoder(rdecoder, r), r, rcount + 1)

\* `while start_time.elapsed() < Duration::from_secs(30)`, and the bail!
\* after the loop
LoopTest ==
    /\ rpc = "while"
    /\ IF rclock < TIMEOUT_SECS
       THEN /\ rpc' = "recv"
            /\ rresult' = rresult
       ELSE /\ rpc' = "done"
            /\ rresult' = <<"Err", "Failed to decode file within timeout">>
    /\ UNCHANGED <<rclock, rcount, rdecoder, rlast>>
    /\ UNCHANGED <<unlisted, call, tripleVars, codecVars, rateVars>>

\* a datagram arrives while receive_block is awaited: the loop body runs
Arrive(dg) ==
    /\ rpc = "recv"
    /\ rcount < MaxDatagrams
    /\ rlast' = Some(dg)
    /\ RecvReceived(receive_block(dg))
    /\ UNCHANGED rclock
    /\ UNCHANGED <<unlisted, call, tripleVars, codecVars, rateVars>>

\* time passes
RecvTick ==
    /\ rpc # "done"
    /\ rclock < MaxClock
    /\ rclock' = rclock + ClockStep
    /\ UNCHANGED <<rpc, rcount, rdecoder, rlast, rresult>>
    /\ UNCHANGED <<unlisted, call, tripleVars, codecVars, rateVars>>

NextRecv ==
    \/ LoopTest
    \/ \E dg \in Datagrams : Arrive(dg)
    \/ RecvTick

SpecRecv == InitRecv /\ [][NextRecv]_vars

\* the program runs when it can and time passes; nothing obliges a datagram
\* to arrive
SpecRecvLive == SpecRecv /\ WF_vars(LoopTest) /\ WF_vars(RecvTick)

(***************************************************************************)
(* SpecCall: the constructors and pure functions, each called on inputs    *)
(* drawn from bounded sets; `call` holds the call and its value.           *)
(***************************************************************************)
MaxCtorLen == 257   \* the constructors are handed at most this many bytes

CtorLens == {0, 3, 4, 8, 256, MaxCtorLen}
CtorSizes == {0, 1, 2, 4, 300}
CtorKs == {0, 3, 4, 100, 256, 257}

\* the bytes handed to a constructor: 1, 2, 3, ...
CtorData(n) == [i \in 0..(n - 1) |-> (i + 1) % 256]

\* what a constructor returned: Err(err(arg)), or Ok with an object for k
\* source blocks
CtorValue(r, k) ==
    IF r.ok THEN [ok |-> TRUE, k |-> k] ELSE [ok |-> FALSE, err |-> <<r.err, r.arg>>]

\* Decoder::new(k, t)
DecoderNewCall(k, t) ==
    /\ call.name = "idle"
    /\ call' = [name |-> "Decoder::new", args |-> <<k, t>>,
                ret |-> CtorValue(DecoderNew(k, t), k)]
    /\ UNCHANGED <<unlisted, tripleVars, codecVars, rateVars, recvVars>>

\* fountain::Encoder::new(data, block_size), data of n bytes
FountainEncoderNewCall(n, bs) ==
    /\ call.name = "idle"
    /\ LET r == EncoderNew(CtorData(n), bs)
       IN  call' = [name |-> "fountain::Encoder::new", args |-> <<n, bs>>,
                    ret |-> CtorValue(r, IF r.ok THEN Len0(r.val.blocks) ELSE 0)]
    /\ UNCHANGED <<unlisted, tripleVars, codecVars, rateVars, recvVars>>

\* encoder::Encoder::new(data, symbol_size), data of n bytes
EncoderEncoderNewCall(n, bs) ==
    /\ call.name = "idle"
    /\ LET r == encoder_EncoderNew(CtorData(n), bs)
       IN  call' = [name |-> "encoder::Encoder::new", args |-> <<n, bs>>,
                    ret |-> CtorValue(r, IF r.ok THEN r.val.k ELSE 0)]
    /\ UNCHANGED <<unlisted, tripleVars, codecVars, rateVars, recvVars>>

MaxCombN == 12      \* combinations(n, k) is called with n and k in 0..MaxCombN

\* LDPCParams::new(k)
LDPCParamsNewCall(k) ==
    /\ call.name = "idle"
    /\ call' = [name |-> "LDPCParams::new", args |-> <<k>>, ret |-> LDPCParams(k)]
    /\ UNCHANGED <<unlisted, tripleVars, codecVars, rateVars, recvVars>>

\* combinations(n, k)
CombinationsCall(n, k) ==
    /\ call.name = "idle"
    /\ call' = [name |-> "combinations", args |-> <<n, k>>, ret |-> combinations(n, k)]
    /\ UNCHANGED <<unlisted, tripleVars, codecVars, rateVars, recvVars>>

TransferLengths == {1, 7, 8, 512, 1000, 263168, 1000000}
SubblockSizes == {1, 8192, 131584}
PayloadSizes == {0, 4, 6, 8, 1024}
Alignments == {0, 1, 4}
SymbolsPerPacket == {0, 1, 10}

\* BlockParameters::new(f, w, p, a, g)
BlockParametersNewCall(f, w, p, a, g) ==
    /\ call.name = "idle"
    /\ call' = [name |-> "BlockParameters::new", args |-> <<f, w, p, a, g>>,
                ret |-> BlockParametersNew(f, w, p, a, g)]
    /\ UNCHANGED <<unlisted, tripleVars, codecVars, rateVars, recvVars>>

FrameLens == {0, 1, 1400, 1488, 1489, 2000}
FrameWords == {<<0, 0>>, <<1, 2>>, <<65535, 65535>>}
FrameDegrees == {<<0, 0, 0, 3>>, <<0, 0, 0, 40>>, <<0, 1, 0, 3>>}

\* block_data of n bytes
FrameData(n) == [i \in 0..(n - 1) |-> ((i * 7) + 3) % 256]

\* send_block(target, block_data, seed, degree, seq) builds and sends a
\* datagram, and receive_block() on the socket it is sent to returns r
FrameCall(block_data, seed, degree, seq, r) ==
    /\ call.name = "idle"
    /\ call' = [name |-> "send_block",
                args |-> [data |-> block_data, seed |-> seed, degree |-> degree, seq |-> seq],
                ret |-> receive_block_from(r)]
    /\ UNCHANGED <<unlisted, tripleVars, codecVars, rateVars, recvVars>>

WaitTicksPerSec == 10   \* clock ticks per second of a single wait call

WaitRates == {1, 8}                 \* mbps
WaitBytes == {131072, 1048576}      \* bytes charged

\* RateLimiter::new(mbps) and then, at once, limiter.wait(bytes).await
WaitCall(mbps, bytes) ==
    /\ call.name = "idle"
    /\ call' = [name |-> "RateLimiter::wait", args |-> <<mbps, bytes>>,
                ret |-> wait_delay(RateLimiterNew(mbps, 0), bytes, 0, WaitTicksPerSec)]
    /\ UNCHANGED <<unlisted, tripleVars, codecVars, rateVars, recvVars>>

SolveDims == {2, 3}

\* the n x n matrices over GF(2)
SquareMatrices(n) ==
    {[rows |-> n, cols |-> n, data |-> d] : d \in [0..(n - 1) -> [0..(n - 1) -> {0, 1}]]}

\* the right-hand sides handed to solve for an n x n matrix: every vector
\* of n bits, and the zero vectors one shorter and one longer
RightHandSides(n) ==
    [0..(n - 1) -> {0, 1}] \cup {[i \in 0..(n - 2) |-> 0], [i \in 0..n |-> 0]}

\* matrix.solve(&b)
SolveCall(m, b) ==
    /\ call.name = "idle"
    /\ call' = [name |-> "BinaryMatrix::solve", args |-> [m |-> m, b |-> b],
                ret |-> solve(m, b)]
    /\ UNCHANGED <<unlisted, tripleVars, codecVars, rateVars, recvVars>>

MatrixKs == 4..256

\* the columns of row r of m that hold a one
OnesOfRow(m, r) == {c \in 0..(m.cols - 1) : m.data[r][c] = 1}

\* what the equation matrix of the decoder d for k source blocks holds: the
\* dimensions and, for every constraint row, the columns with a one
EquationMatrixOf(d, k) ==
    [name |-> "Decoder::new.equation_matrix", args |-> <<k>>,
     ldpc_params |-> d.ldpc_params,
     gray_sequence |-> d.gray_sequence,
     rows |-> d.equation_matrix.rows, cols |-> d.equation_matrix.cols,
     values |-> Len0(d.equation_values),
     ones |-> [r \in k..(d.equation_matrix.rows - 1) |-> OnesOfRow(d.equation_matrix, r)]]

\* Decoder::new(k, 1) for a valid k
DecoderMatrixCall(k) ==
    /\ call.name = "idle"
    /\ call' = EquationMatrixOf(DecoderNew(k, 1).val, k)
    /\ UNCHANGED <<unlisted, tripleVars, codecVars, rateVars, recvVars>>

\* the K and the u32 X (as bytes, most significant first) generate_triple is
\* called with: 0, 1, 255, 65535, 65536, 65552, 2^31 and 2^32 - 1
WideKs == 4..80
WideXs ==
    {<<0, 0, 0, 0>>, <<0, 0, 0, 1>>, <<0, 0, 0, 255>>, <<0, 0, 255, 255>>, <<0, 1, 0, 0>>,
     <<0, 1, 0, 16>>, <<128, 0, 0, 0>>, <<255, 255, 255, 255>>}

\* degree_gen.generate_triple(k, x), as far as Y
TripleYCall(k, x) ==
    /\ call.name = "idle"
    /\ \E r \in generate_triple_y(k, x) :
          call' = [name |-> "generate_triple.y", args |-> [k |-> k, x |-> x], ret |-> r]
    /\ UNCHANGED <<unlisted, tripleVars, codecVars, rateVars, recvVars>>

\* the arguments of BlockParameters::new the source blocks are built for
SourceTransferLengths == {8, 16, 24}
SourceSubblockSizes == {1, 2, 3, 4, 8, 16}
SourcePayloadSizes == {8}
SourceAlignments == {1, 2, 4}
SourceSymbolsPerPacket == {1, 2}
SourceDataLens == {0, 1, 7, 8, 9, 16}

\* SourceBlock::new(data, 0, &params) for data of n bytes and the params
\* that BlockParameters::new(f, w, p, a, g) returned
SourceBlockCall(n, f, w, p, a, g) ==
    /\ call.name = "idle"
    /\ BlockParametersNew(f, w, p, a, g).tag = "Ok"
    /\ call' = [name |-> "SourceBlock::new",
                args |-> [data |-> CtorData(n), params |-> BlockParametersNew(f, w, p, a, g).val],
                ret |-> SourceBlockNew(CtorData(n), 0, BlockParametersNew(f, w, p, a, g).val)]
    /\ UNCHANGED <<unlisted, tripleVars, codecVars, rateVars, recvVars>>

InitCall == TablesIdle /\ CallIdle /\ TripleIdle /\ CodecIdle /\ RateIdle /\ RecvIdle

NextCall ==
    \/ \E k \in CtorKs, t \in 0..2 : DecoderNewCall(k, t)
    \/ \E n \in CtorLens, bs \in CtorSizes : FountainEncoderNewCall(n, bs)
    \/ \E n \in CtorLens, bs \in CtorSizes : EncoderEncoderNewCall(n, bs)
    \/ \E k \in 4..KMAX : LDPCParamsNewCall(k)
    \/ \E n \in 0..MaxCombN, k \in 0..MaxCombN : CombinationsCall(n, k)
    \/ \E f \in TransferLengths, w \in SubblockSizes, p \in PayloadSizes,
          a \in Alignments, g \in SymbolsPerPacket : BlockParametersNewCall(f, w, p, a, g)
    \/ \E n \in FrameLens, seed \in FrameWords, degree \in FrameDegrees, seq \in FrameWords :
          \E r \in recv_from(send_block_buffer(FrameData(n), seed, degree, seq), DEFAULT_MTU) :
              FrameCall(FrameData(n), seed, degree, seq, r)
    \/ \E mbps \in WaitRates, bytes \in WaitBytes : WaitCall(mbps, bytes)
    \/ \E n \in SolveDims : \E m \in SquareMatrices(n), b \in RightHandSides(n) : SolveCall(m, b)
    \/ \E k \in MatrixKs : DecoderMatrixCall(k)
    \/ \E k \in WideKs, x \in WideXs : TripleYCall(k, x)
    \/ \E n \in SourceDataLens, f \in SourceTransferLengths, w \in SourceSubblockSizes,
          p \in SourcePayloadSizes, a \in SourceAlignments, g \in SourceSymbolsPerPacket :
            SourceBlockCall(n, f, w, p, a, g)

SpecCall == InitCall /\ [][NextCall]_vars

(***************************************************************************)
(* Properties.                                                             *)
(***************************************************************************)
\* the decoder holds, for every ESI 0..K-1, the block the encoder emitted
\* for it, and nothing else
AllSourceESIsReceived ==
    /\ DOMAIN decoder.received_blocks = 0..(decoder.source_block_count - 1)
    /\ \A x \in DOMAIN decoder.received_blocks :
          /\ decoder.received_blocks[x] \in emitted
          /\ decoder.received_blocks[x].seed = x

\* C1: round trip.  When the decoder has been handed the encoder's blocks
\* for the ESIs 0..K-1 (in any order) and try_decode is called, try_decode
\* returns Ok(true) and get_decoded_data returns Some(D), D the source data.
C1_RoundTrip ==
    (op.name = "try_decode" /\ AllSourceESIsReceived)
        => /\ op.res = <<"Ok", TRUE>>
           /\ get_decoded_data(decoder) = Some(src)

\* C2: systematic encoder.  Every block emitted for an ESI X < K carries
\* the data of source block X.
C2_Systematic ==
    \A blk \in emitted :
        blk.seed < Len0(enc.blocks) => blk.data = enc.blocks[blk.seed]

C4_NoneOrFull ==
    get_decoded_data(decoder).some => get_decoded_data(decoder).val = src

\* try_decode has run on a decoder holding blocks, and get_decoded_data
\* returns None
C4_Witness ==
    /\ op.name = "try_decode"
    /\ DOMAIN decoder.received_blocks # {}
    /\ ~get_decoded_data(decoder).some

\* C5: not yet solvable is not a failure.  A try_decode call on a decoder
\* that holds fewer than K blocks (none included) returns Ok(false).
C5_NeedMore ==
    (/\ op.name = "try_decode"
     /\ Cardinality(DOMAIN decoder.received_blocks) < decoder.source_block_count)
        => op.res = <<"Ok", FALSE>>

\* the bytes released at the ticks lo..hi
RECURSIVE SumReleased(_, _)
SumReleased(lo, hi) ==
    IF lo > hi THEN 0 ELSE released[lo] + SumReleased(lo + 1, hi)

\* the longest frame a send_block call of the model builds
MaxFrame == HEADER_SIZE + (CHOOSE n \in PayloadLens : \A o \in PayloadLens : o <= n)

\* C6: rate-limiter bound.  The bytes RateLimiter::wait releases in any
\* window of one second (the ticks s .. s + TicksPerSec - 1) are at most
\* bytes_per_second plus the length of one datagram.
C6_RateBound ==
    \A s \in 0..MaxTime :
        SumReleased(s, Min2(s + TicksPerSec - 1, MaxTime))
            <= limiter.bytes_per_second + MaxFrame

\* the sender is inside RateLimiter::wait
InsideWait(p) == snd[p].pc \in {"load", "store", "sleep", "reset"}

\* C7: one bucket under mutual exclusion.  At most one send_block call is
\* inside RateLimiter::wait at any time, and bytes_sent is the sum of the
\* frame lengths charged since the last reset, each counted once.
C7_MutualExclusion ==
    /\ Cardinality({p \in Senders : InsideWait(p)}) <= 1
    /\ limiter.bytes_sent = charged

\* one call sleeps inside wait, holding the guard, after an earlier call was
\* charged to the same bucket, while another call waits for the lock
C7_Witness ==
    \E p \in Senders, q \in Senders :
        /\ p # q
        /\ snd[p].pc = "sleep"
        /\ snd[q].pc = "lock"
        /\ mutex = p
        /\ charged > snd[p].len

\* the datagram is shorter than the header
Malformed(dg) == dg.len < HEADER_SIZE

\* the datagram's payload is not of the size the decoder was set up with
WrongSize(dg) ==
    /\ dg.len >= HEADER_SIZE
    /\ rdecoder.some
    /\ dg.len - HEADER_SIZE # rdecoder.val.block_size

\* C8: recoverable per-datagram errors never abort the session.  After a
\* malformed datagram, or one whose payload has another size than the
\* established block size, receive_file has not returned that datagram's
\* error.
C8_BadDatagramDropped ==
    (rlast.some /\ (Malformed(rlast.val) \/ WrongSize(rlast.val)))
        => /\ rresult # <<"Err", "Received packet too small">>
           /\ rresult # <<"Err", "InvalidBlockSize">>

\* C9: the receive session always ends.  Once 30 seconds have passed,
\* receive_file returns, whatever datagrams arrive or fail to arrive.
C9_SessionEnds == (rclock >= TIMEOUT_SECS) ~> (rpc = "done")

\* C10: triple range.  For K in 4..KMAX, a triple (d, a, b) returned by
\* generate_triple(K, X) has 1 <= d <= min(40, K), 1 <= a < K, 0 <= b < K.
C10_TripleRange ==
    (tres.called /\ tk \in 4..KMAX /\ tres.ret.some)
        => /\ 1 <= tres.ret.val.d /\ tres.ret.val.d <= Min2(40, tk)
           /\ 1 <= tres.ret.val.a /\ tres.ret.val.a < tk
           /\ 0 <= tres.ret.val.b /\ tres.ret.val.b < tk

\* C11: systematic index coverage.  generate_triple(K, X) returns Some for
\* every K in 4..KMAX and None for every K < 4 and every K > KMAX.
C11_IndexCoverage ==
    tres.called => (tres.ret.some <=> tk \in 4..KMAX)

\* the number of blocks data of n bytes splits into, bs bytes each
BlocksOf(n, bs) == (n + bs - 1) \div bs

\* C12: K range enforcement.  No constructor returns an object for K outside
\* 4..256: Decoder::new(K, T) returns InvalidBlockCount(K) for such a K (and
\* InvalidBlockSize(0) for T = 0 with a valid K); fountain::Encoder::new and
\* encoder::Encoder::new return an error when block_size is 0 or the data
\* splits into fewer than 4 or more than 256 blocks, fountain::Encoder::new
\* also when block_size exceeds the data length.
C12_KRange ==
    /\ call.name = "Decoder::new" =>
          /\ (call.args[1] \notin 4..256)
                => call.ret = [ok |-> FALSE, err |-> <<"InvalidBlockCount", call.args[1]>>]
          /\ (call.args[1] \in 4..256 /\ call.args[2] = 0)
                => call.ret = [ok |-> FALSE, err |-> <<"InvalidBlockSize", 0>>]
    /\ call.name = "fountain::Encoder::new" =>
          ((\/ call.args[2] = 0
            \/ call.args[2] > call.args[1]
            \/ BlocksOf(call.args[1], call.args[2]) \notin 4..256) => ~call.ret.ok)
    /\ call.name = "encoder::Encoder::new" =>
          ((\/ call.args[2] = 0
            \/ BlocksOf(call.args[1], call.args[2]) \notin 4..256) => ~call.ret.ok)

IsPrime(n) == n > 1 /\ \A d \in 2..(n - 1) : n % d # 0

\* the smallest positive integer X with X * (X - 1) >= 2 * K
LeastX(k) ==
    CHOOSE x \in 1..((2 * k) + 1) :
        /\ x * (x - 1) >= 2 * k
        /\ \A y \in 1..(x - 1) : y * (y - 1) < 2 * k

\* the smallest prime >= n
LeastPrimeFrom(n) ==
    CHOOSE p \in n..(2 * n) : IsPrime(p) /\ \A q \in n..(p - 1) : ~IsPrime(q)

\* C13: for every K in 4..256 the LDPC symbol count S of LDPCParams::new(K)
\* is prime: the smallest prime >= ceil(0.01 * K) + X, X the smallest positive
\* integer with X * (X - 1) >= 2 * K (S = 17 for K = 100).
C13_SPrime ==
    call.name = "LDPCParams::new" =>
        /\ IsPrime(call.ret.s)
        /\ call.ret.s = LeastPrimeFrom(CeilDiv(call.args[1], 100) + LeastX(call.args[1]))

\* row n of Pascal's triangle: row[k + 1] is n choose k
RECURSIVE PascalRow(_)
PascalRow(n) ==
    IF n = 0 THEN <<1>>
    ELSE LET prev == PascalRow(n - 1)
         IN  [i \in 1..(n + 1) |->
                (IF i > 1 THEN prev[i - 1] ELSE 0) + (IF i <= n THEN prev[i] ELSE 0)]

\* the binomial coefficient n choose k
Binomial(n, k) == IF k > n THEN 0 ELSE PascalRow(n)[k + 1]

\* the smallest positive integer H with (H choose ceil(H / 2)) >= n
LeastH(n) ==
    CHOOSE h \in 1..MaxCombN :
        /\ Binomial(h, CeilDiv(h, 2)) >= n
        /\ \A g \in 1..(h - 1) : Binomial(g, CeilDiv(g, 2)) < n

\* the parameters the claim gives for K, from S on
ParamsFromS(k, s) == [s |-> s, h |-> LeastH(k + s), l |-> k + s + LeastH(k + s)]

\* C14: for every K in 4..256, LDPCParams::new(K) returns s = ceil(0.01 * K)
\* + X, X the smallest positive integer with X * (X - 1) >= 2 * K, h the
\* smallest positive integer with (h choose ceil(h / 2)) >= K + s, and
\* l = K + s + h; combinations(n, k) is the binomial coefficient n choose k,
\* 0 for k > n, and the same for k and n - k.
C14_LDPCParams ==
    /\ call.name = "LDPCParams::new" =>
          call.ret = ParamsFromS(call.args[1], CeilDiv(call.args[1], 100) + LeastX(call.args[1]))
    /\ call.name = "combinations" =>
          /\ call.ret = Binomial(call.args[1], call.args[2])
          /\ call.args[2] > call.args[1] => call.ret = 0
          /\ call.args[2] <= call.args[1]
                => call.ret = combinations(call.args[1], call.args[1] - call.args[2])

\* LDPCParams::new(100) returned s = 16, h = 9, l = 125
C14_Witness ==
    /\ call.name = "LDPCParams::new"
    /\ call.args = <<100>>
    /\ call.ret = [s |-> 16, h |-> 9, l |-> 125]

\* the arguments of a BlockParameters::new call are valid: F > 0, W > 0,
\* P > 0, A > 0 dividing P, G_max >= 1
ValidBlockArgs(args) ==
    /\ args[1] > 0
    /\ args[2] > 0
    /\ args[3] > 0
    /\ args[4] > 0
    /\ args[3] % args[4] = 0
    /\ args[5] >= 1

\* Z * ceil(Kt / Z) * T >= F with Kt = ceil(F / T), for the parameters bp
CoversTransfer(bp) ==
    LET kt == CeilDiv(bp.transfer_length, bp.symbol_size)
    IN  bp.num_blocks * CeilDiv(kt, bp.num_blocks) * bp.symbol_size >= bp.transfer_length

\* C15: BlockParameters::new accepts every valid input.  For F > 0, P > 0,
\* A > 0 dividing P, W > 0 and G_max >= 1 it returns Ok, symbol_size is a
\* positive multiple of alignment and Z * ceil(Kt / Z) * T >= F.
C15_AcceptsValid ==
    (call.name = "BlockParameters::new" /\ ValidBlockArgs(call.args)) =>
        /\ call.ret.tag = "Ok"
        /\ call.ret.val.symbol_size > 0
        /\ call.ret.val.symbol_size % call.ret.val.alignment = 0
        /\ CoversTransfer(call.ret.val)

\* C16: BlockParameters::new returns Err(InvalidParameters), and nothing
\* else, when alignment = 0, max_payload_size is no multiple of alignment,
\* max_payload_size = 0 or max_symbols_per_packet = 0 (symbol size 0).
C16_InvalidParameters ==
    (/\ call.name = "BlockParameters::new"
     /\ \/ call.args[4] = 0
        \/ call.args[3] % call.args[4] # 0
        \/ call.args[3] = 0
        \/ call.args[5] = 0)
        => call.ret = [tag |-> "Err", err |-> "InvalidParameters"]

\* C17: frame round trip.  The datagram send_block builds from a payload, a
\* seed, a degree and a sequence number is parsed by receive_block into the
\* same seed, degree, sequence number and payload bytes, whatever the
\* payload's length.
C17_FrameRoundTrip ==
    call.name = "send_block" =>
        /\ call.ret.ok
        /\ call.ret.seed = call.args.seed
        /\ call.ret.degree = call.args.degree
        /\ call.ret.seq = call.args.seq
        /\ call.ret.data = call.args.data

\* C18: rate-limiter timing.  On a fresh limiter at 1 Mbps, a single wait
\* call charging 1 MiB (1024 * 1024 bytes) delays its caller between 0.9 and
\* 1.1 seconds.
C18_OneMiBOneSecond ==
    (call.name = "RateLimiter::wait" /\ call.args = <<1, 1024 * 1024>>) =>
        /\ 10 * call.ret >= 9 * WaitTicksPerSec
        /\ 10 * call.ret <= 11 * WaitTicksPerSec

\* C19: add_block rejects a block whose payload length is not the decoder's
\* block size with InvalidBlockSize(the payload's length), and a rejected
\* call leaves the decoder as it was: received_blocks, block_states and the
\* equation system.
C19_RejectKeepsState ==
    [][op'.name = "add_block" =>
          /\ (op'.len # decoder.block_size)
                => (~op'.ok /\ op'.err = <<"InvalidBlockSize", op'.len>>)
          /\ ~op'.ok => decoder' = decoder]_vars

\* a block of the wrong size was rejected under a sequence number the
\* decoder holds a block for
C19_Witness ==
    /\ op.name = "add_block"
    /\ ~op.ok
    /\ op.len # decoder.block_size
    /\ op.sequence \in DOMAIN decoder.received_blocks

\* C20: sequence numbering of the fountain encoder.  The n-th successful
\* next_block call (n = 0, 1, 2, ...) returns a block with seed n, block_size
\* bytes of data and a degree in 1..40; the sequence counter grows by one
\* with every block returned and stays as it is when the call fails.
C20_SequenceNumbering ==
    /\ [](/\ enc.sequence = Cardinality(emitted)
          /\ {blk.seed : blk \in emitted} = 0..(enc.sequence - 1))
    /\ [][op'.name = "next_block" =>
             IF op'.ok
             THEN /\ op'.ret.seed = enc.sequence
                  /\ Len0(op'.ret.data) = enc.block_size
                  /\ op'.ret.degree \in 1..40
                  /\ enc'.sequence = enc.sequence + 1
             ELSE enc'.sequence = enc.sequence]_vars

\* the third successful call returned the block of seed 2
C20_Witness ==
    /\ op.name = "next_block"
    /\ op.ok
    /\ op.ret.seed = 2
    /\ enc.sequence = 3

\* the product m * x over GF(2)
MatVec(m, x) ==
    [i \in 0..(m.rows - 1) |->
        Cardinality({j \in 0..(m.cols - 1) : m.data[i][j] = 1 /\ x[j] = 1}) % 2]

\* the square matrix m is invertible over GF(2): no x but 0 has m * x = 0
Invertible(m) ==
    \A x \in [0..(m.cols - 1) -> {0, 1}] :
        (\A i \in 0..(m.rows - 1) : MatVec(m, x)[i] = 0) => (\A j \in 0..(m.cols - 1) : x[j] = 0)

\* C21: GF(2) solver.  For a square matrix A and a right-hand side b,
\* solve(b) returns Some(x) with A * x = b when A is invertible, and None
\* when A is singular or b has another length than A has rows.
C21_SolveCorrect ==
    call.name = "BinaryMatrix::solve" =>
        IF Len0(call.args.b) # call.args.m.rows \/ ~Invertible(call.args.m)
        THEN call.ret = None
        ELSE call.ret.some /\ MatVec(call.args.m, call.ret.val) = call.args.b

\* C22: LDPC constraint rows.  After Decoder::new(K, T) each of the S LDPC
\* rows K .. K+S-1 has exactly 3 ones among the K source columns, at the
\* three distinct columns a_i, b_i, c_i of the row, and none is all-zero.
C22_LDPCRowsDegree3 ==
    call.name = "Decoder::new.equation_matrix" =>
        \A r \in call.args[1]..(call.args[1] + call.ldpc_params.s - 1) :
            /\ Cardinality(call.ones[r] \cap (0..(call.args[1] - 1))) = 3
            /\ call.ones[r] # {}

\* the largest power of two that is at most j, searched from p on
RECURSIVE Pow2Below(_, _)
Pow2Below(j, p) == IF 2 * p > j THEN p ELSE Pow2Below(j, 2 * p)

\* the j-th word of the binary-reflected Gray code: the second half of each
\* power-of-two block is the first half read backwards with the top bit set
RECURSIVE GrayCode(_)
GrayCode(j) ==
    IF j < 2 THEN j
    ELSE LET p == Pow2Below(j, 1) IN p + GrayCode(2 * p - 1 - j)

\* C23: Half constraint rows.  After Decoder::new(K, T) for every valid K in
\* 4..256, each of the H Half rows K+S .. K+S+H-1 has exactly ceil(H/2) ones
\* among the K source columns: the columns (gray[j] + i) mod K, j < ceil(H/2),
\* are pairwise distinct for every row i, and no Half row is all-zero.
C23_HalfRowsDegree ==
    call.name = "Decoder::new.equation_matrix" =>
        LET k == call.args[1]
            half == (call.ldpc_params.h + 1) \div 2
        IN  \A i \in 0..(call.ldpc_params.h - 1) :
                LET ones == call.ones[k + call.ldpc_params.s + i] \cap (0..(k - 1))
                IN  /\ Cardinality(ones) = half
                    /\ ones = {(GrayCode(j) + i) % k : j \in 0..(half - 1)}
                    /\ ones # {}

\* a Half row whose columns (gray[j] + i) wrap around K
C23_Witness ==
    /\ call.name = "Decoder::new.equation_matrix"
    /\ \E i \in 0..(call.ldpc_params.h - 1) :
          /\ \E j \in 0..(((call.ldpc_params.h + 1) \div 2) - 1) :
                GrayCode(j) + i >= call.args[1]
          /\ Cardinality(call.ones[call.args[1] + call.ldpc_params.s + i])
                = (call.ldpc_params.h + 1) \div 2

\* C24: equation matrix size.  Decoder::new(K, T) creates a square equation
\* matrix whose numbers of rows and of columns both equal K + K/2 + K/4
\* (175 for K = 100).
C24_MatrixSize ==
    call.name = "Decoder::new.equation_matrix" =>
        /\ call.rows = call.args[1] + call.args[1] \div 2 + call.args[1] \div 4
        /\ call.cols = call.rows

\* C25: block processing completes.  After add_block calls that succeeded,
\* process_pending_blocks (the first step of try_decode) returns Ok: it
\* neither fails nor indexes outside the equation matrix, and afterwards
\* every block that was Pending is Processed, none remains Pending.
C25_ProcessingCompletes ==
    op.name = "try_decode" =>
        /\ op.res[1] # "panic"
        /\ op.res # <<"Err", "DecodingFailed">>
        /\ PendingBlocks(decoder) = {}
        /\ \A q \in DOMAIN decoder.received_blocks : decoder.block_states[q] = "Processed"

\* C26: deterministic replay.  Two decoders created with the same (K, block
\* size) and fed the same blocks under the same sequence numbers have
\* processed them and hold identical equation matrices and right-hand sides
\* afterwards, for any number of pending blocks and whatever the order in
\* which the pending-block map hands the blocks out.
C26_DeterministicReplay ==
    [][(op'.name = "try_decode" /\ PendingBlocks(decoder) # {}) =>
          \A r1, r2 \in process_pending_blocks(decoder, PendingBlocks(decoder)) :
              /\ r1.tag = "Ok" /\ r2.tag = "Ok"
              /\ r1.dec.equation_matrix = r2.dec.equation_matrix
              /\ r1.dec.equation_values = r2.dec.equation_values]_vars

\* C29: shape of the equation system.  In every decoder state reachable by
\* add_block and try_decode calls (a decoder whose call panicked aside), the
\* equation matrix has as many rows as equation_values has entries, so
\* BinaryMatrix::solve never rejects the system for a row-count mismatch.
C29_SystemShape ==
    ~panicked => MatrixRows(decoder.equation_matrix) = Len0(decoder.equation_values)

\* J(K) of RFC 5053 for the K the source's table lists
JOf(k) == SYSTEMATIC_INDEX_TABLE[k - 3]

\* (x * a) mod q for x = <<x3, x2, x1, x0>>, by Horner's rule over the bytes
\* of x, every intermediate value reduced mod q
MulMod(x, a, q) ==
    LET r1 == (x[1] * a) % q
        r2 == ((r1 * 256) + (x[2] * a)) % q
        r3 == ((r2 * 256) + (x[3] * a)) % q
    IN  ((r3 * 256) + (x[4] * a)) % q

\* the exact integer (B' + X * A') mod 65521
ExactY(k, x) ==
    LET a == (53591 + JOf(k) * 997) % 65521
        b == (10267 * (JOf(k) + 1)) % 65521
    IN  (b + MulMod(x, a, 65521)) % 65521

\* C27: exact Y.  For every valid K and every X in [0, 2^32), generate_triple
\* computes Y = (B' + X * A') mod 65521 as the exact integer value, with
\* A' = (53591 + J * 997) mod 65521 and B' = (10267 * (J + 1)) mod 65521: no
\* 32-bit overflow or wrap-around changes the result or makes the call fail.
C27_ExactY ==
    call.name = "generate_triple.y" =>
        /\ call.ret.tag = "Some"
        /\ call.ret.y = ExactY(call.args.k, call.args.x)

\* C28: blocks and sub-blocks.  For every input BlockParameters::new accepts,
\* with Kt = ceil(F / T): num_blocks is Z = ceil(Kt / K_MAX), num_subblocks is
\* N = min(ceil((ceil(Kt / Z) * T) / W), T / A), the inner ceil(Kt / Z) taken
\* before the multiplication by T, and a source block holds at most K_MAX
\* symbols (ceil(Kt / Z) <= K_MAX).
C28_BlocksAndSubblocks ==
    (call.name = "BlockParameters::new" /\ call.ret.tag = "Ok") =>
        LET T == call.ret.val.symbol_size
            Kt == CeilDiv(call.args[1], T)
            Z == CeilDiv(Kt, KMAX)
        IN  /\ call.ret.val.num_blocks = Z
            /\ call.ret.val.num_subblocks
                  = Min2(CeilDiv(CeilDiv(Kt, Z) * T, call.args[2]), T \div call.args[4])
            /\ CeilDiv(Kt, Z) <= KMAX

\* the bytes of u followed by the bytes of v
Cat(u, v) ==
    [i \in 0..(Len0(u) + Len0(v) - 1) |-> IF i < Len0(u) THEN u[i] ELSE v[i - Len0(u)]]

\* sub_symbol(i, 0), ..., sub_symbol(i, n - 1) of the block, concatenated
RECURSIVE CatSubSymbols(_, _, _)
CatSubSymbols(block, i, n) ==
    IF n = 0 THEN <<>>
    ELSE Cat(CatSubSymbols(block, i, n - 1), sub_symbol(block, i, n - 1).val)

\* C30: the sub-block partition is lossless.  For a SourceBlock built from
\* parameters that BlockParameters::new produced (symbol size T, N sub-blocks,
\* 1 <= N <= T / A), the symbols are the data split into ceil(len / T) pieces
\* of T bytes, only the last one zero-padded, and for every symbol i the
\* concatenation of sub_symbol(i, 0), ..., sub_symbol(i, N - 1) is exactly
\* the T bytes of symbol i, also when N does not divide T.
C30_SubBlocksLossless ==
    call.name = "SourceBlock::new" =>
        LET T == call.args.params.symbol_size
            N == call.args.params.num_subblocks
            data == call.args.data
        IN  /\ call.ret.tag = "Ok"
            /\ Len0(call.ret.val.symbols) = CeilDiv(Len0(data), T)
            /\ \A i \in DOMAIN call.ret.val.symbols :
                  /\ call.ret.val.symbols[i]
                        = [j \in 0..(T - 1) |->
                              IF (i * T) + j < Len0(data) THEN data[(i * T) + j] ELSE 0]
                  /\ \A n \in 0..(N - 1) : sub_symbol(call.ret.val, i, n).some
                  /\ CatSubSymbols(call.ret.val, i, N) = call.ret.val.symbols[i]

=============================================================================
